---------------------------- MODULE Spec2Model ----------------------------
(***************************************************************************)
(* A model of the TMC5160 driver (src/src/lib.rs): the 5-byte SPI datagram *)
(* exchange, the read-twice / write-once register protocol, the compound   *)
(* operations built on it, and the unit conversions.                       *)
(*                                                                         *)
(* Conventions of the model                                                *)
(*  - a byte is an integer 0..255, a byte array a sequence (1-based);      *)
(*  - a 32-bit word (u32 or i32) is stored as the integer value of its bit *)
(*    pattern read as two's complement (-2^31 .. 2^31-1): TLC's integers   *)
(*    are 32 bits wide, and the pattern, not its signedness, is the data;  *)
(*  - an f32 is a record [m, e] standing for m * 2^e with m odd (or 0) and *)
(*    |m| < 2^24; arithmetic rounds to nearest-even as IEEE-754 binary32   *)
(*    does.  Exponent overflow, subnormals, NaN and infinities are outside *)
(*    the inputs the model draws;                                          *)
(*  - each driver call is one action.  The bus and the pins are the        *)
(*    call's environment: every exchange's outcome (a transfer error or a  *)
(*    5-byte response) and the health of the pins are inputs of the call.  *)
(*    The exchanges and pin commands of the call are kept in `wire`, its   *)
(*    return value in `ret`, until the caller takes the result; the driver *)
(*    is single-threaded, so the next call starts only then.               *)
(***************************************************************************)
EXTENDS Integers, Sequences, FiniteSets, TLC

(***************************************************************************)
(* Bounds of the model.                                                    *)
(***************************************************************************)
\* how many rows of RespTable the bus may answer with
NumResp == 2
\* how many rows of WordTable a caller may pass as a raw 32-bit value
NumWords == 2
\* how many rows of HzTable a caller may pass as a speed or acceleration
NumHz == 2
\* how many rows of VelTable the chip may answer a read of VACTUAL with
NumVel == 3
\* how many rows of PosTable a caller may pass as a position
NumPos == 3
\* how many rows of StatTable the chip may answer a status read with
NumStat == 2

(***************************************************************************)
(* Sequencing.  Bind evaluates x once and hands its value to F, as a Rust  *)
(* `let` does; Try is the `?` operator: an Err result is returned at once, *)
(* an Ok result goes on to F.                                              *)
(***************************************************************************)
Bind(x, F(_)) == CHOOSE r \in {F(v) : v \in {x}} : TRUE

Try(x, F(_)) == Bind(x, LAMBDA v : IF ~v.res.ok THEN v ELSE F(v))

(***************************************************************************)
(* Bytes and words.                                                        *)
(***************************************************************************)
Two8 == 2^8
Two16 == 2^16
Two23 == 2^23
Two24 == 2^24

\* a u8 with its top bit set: x | 0x80
or_0x80(x) == IF (x \div 128) % 2 = 1 THEN x ELSE x + 128

\* u32::from_be_bytes / i32::from_be_bytes: b[1] is the most significant byte
from_be_bytes(b) ==
    (IF b[1] >= 128 THEN b[1] - Two8 ELSE b[1]) * Two24
        + b[2] * Two16 + b[3] * Two8 + b[4]

\* u32::to_be_bytes / i32::to_be_bytes
to_be_bytes(w) ==
    Bind(w, LAMBDA v :
        << (v \div Two24) % Two8, (v \div Two16) % Two8, (v \div Two8) % Two8,
           v % Two8 >>)

\* u32::to_le_bytes
to_le_bytes(w) ==
    Bind(w, LAMBDA v :
        << v % Two8, (v \div Two8) % Two8, (v \div Two16) % Two8,
           (v \div Two24) % Two8 >>)

\* a plausible slip: the loop copies instead of reversing
swap_bytes_copy(input) == [i \in 1..4 |-> input[i]]

\* fn swap_bytes: output[4 - 1 - i] = input[i]
swap_bytes(input) == [i \in 1..4 |-> input[4 + 1 - i]]

(***************************************************************************)
(* f32 arithmetic.                                                         *)
(***************************************************************************)
Abs(x) == IF x < 0 THEN -x ELSE x
Sgn(x) == IF x < 0 THEN -1 ELSE 1

RECURSIVE BitLen(_)
BitLen(n) == IF n = 0 THEN 0 ELSE 1 + BitLen(n \div 2)

\* the canonical record of m * 2^e
RECURSIVE F32(_, _)
F32(m, e) ==
    IF m = 0 THEN [m |-> 0, e |-> 0]
    ELSE IF m % 2 = 0 THEN F32(m \div 2, e + 1)
    ELSE [m |-> m, e |-> e]

\* f32 * f32, rounded to nearest, ties to even.  The 48-bit product of the
\* mantissas is held as hi * 2^24 + lo.
f32_mul(a, b) ==
    LET x == Abs(a.m)
        y == Abs(b.m)
        x1 == x \div 4096
        x0 == x % 4096
        y1 == y \div 4096
        y0 == y % 4096
        p0 == x0 * y0
        p1 == x1 * y0 + x0 * y1
        p2 == x1 * y1
        low == p0 + (p1 % 4096) * 4096
        lo == low % Two24
        hi == p2 + (p1 \div 4096) + (low \div Two24)
        k == BitLen(hi)
        mant == hi * 2^(24 - k) + (lo \div 2^k)
        rem == lo % 2^k
        half == 2^(k - 1)
        up == rem > half \/ (rem = half /\ mant % 2 = 1)
        r == IF hi = 0 THEN lo ELSE mant + (IF up THEN 1 ELSE 0)
    IN  F32(Sgn(a.m) * Sgn(b.m) * r, a.e + b.e + (IF hi = 0 THEN 0 ELSE k))

\* long division: quotient bits are shifted in until the quotient has 25
\* bits (24 and a guard bit); r is the running remainder, n the shift count
RECURSIVE DivBits(_, _, _, _)
DivBits(q, r, d, n) ==
    IF q >= Two24 THEN [q |-> q, r |-> r, n |-> n]
    ELSE DivBits(2 * q + (IF 2 * r >= d THEN 1 ELSE 0),
                 IF 2 * r >= d THEN 2 * r - d ELSE 2 * r, d, n + 1)

\* f32 / f32 (b not 0), rounded to nearest, ties to even
f32_div(a, b) ==
    LET x == Abs(a.m)
        d == Abs(b.m)
        s == DivBits(x \div d, x % d, d, 0)
        mant == s.q \div 2
        up == s.q % 2 = 1 /\ (s.r # 0 \/ mant % 2 = 1)
        r == mant + (IF up THEN 1 ELSE 0)
    IN  IF x = 0 THEN F32(0, 0)
        ELSE F32(Sgn(a.m) * Sgn(b.m) * r, a.e - b.e - s.n + 1)

\* f32 as u32: truncation toward zero, saturating at 0 and at u32::MAX
f32_as_u32(f) ==
    IF f.m <= 0 THEN 0
    ELSE IF f.e >= 0
         THEN IF BitLen(f.m) + f.e > 32 THEN -1
              ELSE IF BitLen(f.m) + f.e = 32 THEN (f.m - 2^(32 - f.e)) * 2^f.e
              ELSE f.m * 2^f.e
    ELSE IF -f.e >= 30 THEN 0
    ELSE f.m \div 2^(-f.e)

\* the f32 literal 16_777_216.0
F_16_777_216 == F32(1, 24)
\* the f32 literal 512.0 * 256.0
F_512x256 == F32(1, 17)

(***************************************************************************)
(* Registers.  The Registers enum and its Address implementation live in   *)
(* src/registers.rs; the addresses below are the chip's, all in 0..0x7F.   *)
(***************************************************************************)
addr(reg) ==
    CASE reg = "GCONF" -> 0
      [] reg = "GSTAT" -> 1
      [] reg = "GLOBALSCALER" -> 11
      [] reg = "IHOLD_IRUN" -> 16
      [] reg = "TPOWERDOWN" -> 17
      [] reg = "TSTEP" -> 18
      [] reg = "TPWMTHRS" -> 19
      [] reg = "TCOOLTHRS" -> 20
      [] reg = "RAMPMODE" -> 32
      [] reg = "XACTUAL" -> 33
      [] reg = "VACTUAL" -> 34
      [] reg = "VSTART" -> 35
      [] reg = "A1" -> 36
      [] reg = "V1" -> 37
      [] reg = "AMAX" -> 38
      [] reg = "VMAX" -> 39
      [] reg = "DMAX" -> 40
      [] reg = "D1" -> 42
      [] reg = "VSTOP" -> 43
      [] reg = "XTARGET" -> 45
      [] reg = "SW_MODE" -> 52
      [] reg = "RAMP_STAT" -> 53
      [] reg = "XLATCH" -> 54
      [] reg = "ENCMODE" -> 56
      [] reg = "ENC_STATUS" -> 59
      [] reg = "CHOPCONF" -> 108
      [] reg = "COOLCONF" -> 109
      [] reg = "DRV_STATUS" -> 111
      [] reg = "PWMCONF" -> 112
      [] reg = "PWM_AUTO" -> 114

\* the registers a caller passes to read_register and write_register
CallerRegs == {"GCONF", "XACTUAL", "VMAX"}

(***************************************************************************)
(* The environment of a call: what the bus answers and whether the pins    *)
(* obey.                                                                   *)
(***************************************************************************)
\* 5-byte responses: the status byte, then the data word, big-endian
RespTable ==
    << <<9, 0, 0, 0, 100>>,
       <<0, 255, 255, 255, 156>>,
       <<15, 18, 52, 86, 120>>,
       <<128, 0, 128, 0, 1>> >>

\* 32-bit values a caller passes: 0x12345678, -100 (0xFFFFFF9C), 0x00800001
WordTable == << 305419896, -100, 8388609, 100 >>

Words == {WordTable[i] : i \in 1..NumWords}

\* spi.transfer returned Err(e)
SpiFail == [ok |-> FALSE, rx |-> <<>>]

\* what one spi.transfer may return
Outcomes == {SpiFail} \cup {[ok |-> TRUE, rx |-> RespTable[i]] : i \in 1..NumResp}

\* the outcomes of the n exchanges a call may issue.  A call that stops at
\* its first failed exchange reads nothing past it: the entries after it are
\* fixed to SpiFail
Scripts(n) ==
    {o \in [1..n -> Outcomes] : \A i \in 1..(n - 1) : ~o[i].ok => ~o[i + 1].ok}

(***************************************************************************)
(* Results.                                                                *)
(***************************************************************************)
\* Ok(DataPacket { status, data, debug })
OkPacket(st, data, dbg) ==
    [ok |-> TRUE, err |-> "none", status |-> st, data |-> data, debug |-> dbg]

\* Err(Error::Spi(e)) and Err(Error::PinError)
Err(e) == [ok |-> FALSE, err |-> e, status |-> 0, data |-> 0, debug |-> <<>>]

(***************************************************************************)
(* The hardware a call drives: hw = [cs, en, wire].  cs and en are the     *)
(* levels last commanded on the pins, wire the pin commands and transfers  *)
(* of the call so far.  A pin command that fails (the pin returns Err) is  *)
(* recorded with ok = FALSE.                                               *)
(***************************************************************************)
Event(ev, ok, tx, rx) == [ev |-> ev, ok |-> ok, tx |-> tx, rx |-> rx]

\* cs.set_low().ok() / cs.set_high().ok(): the pin's answer is dropped
cs_set(hw, level, pin_ok) ==
    [hw EXCEPT !.cs = level,
               !.wire = Append(@, Event("cs_" \o level, pin_ok, <<>>, <<>>))]

\* spi.transfer(&mut buffer)
transfer(hw, buffer, o) ==
    [hw EXCEPT !.wire = Append(@, Event("transfer", o.ok, buffer, o.rx))]

\* a plausible slip: the read command sent with the write bit set
read_io_write_bit(hw, reg, o, cs_ok) ==
    LET hw1 == cs_set(hw, "low", cs_ok)
        hw2 == transfer(hw1, <<or_0x80(addr(reg)), 0, 0, 0, 0>>, o)
    IN  IF ~o.ok THEN [hw |-> hw2, res |-> Err("Spi")]
        ELSE [hw |-> cs_set(hw2, "high", cs_ok),
              res |-> OkPacket(o.rx[1], from_be_bytes(SubSeq(o.rx, 2, 5)), o.rx)]

\* fn read_io: one read datagram
read_io(hw, reg, o, cs_ok) ==
    LET hw1 == cs_set(hw, "low", cs_ok)
        buffer == <<addr(reg), 0, 0, 0, 0>>
        hw2 == transfer(hw1, buffer, o)
        hw3 == cs_set(hw2, "high", cs_ok)
        response == o.rx
        ret_val == [i \in 1..4 |-> response[i + 1]]
        debug_val == [i \in 1..5 |-> response[i]]
    IN  IF ~o.ok THEN [hw |-> hw2, res |-> Err("Spi")]
        ELSE [hw |-> hw3,
              res |-> OkPacket(response[1], from_be_bytes(ret_val), debug_val)]

\* a plausible slip: the first (stale) response is returned
read_register_first(hw, reg, o1, o2, cs_ok) ==
    Try(read_io(hw, reg, o1, cs_ok), LAMBDA dummy :
    Try(read_io(dummy.hw, reg, o2, cs_ok), LAMBDA second :
        [hw |-> second.hw, res |-> dummy.res]))

\* a plausible slip: the second exchange is issued although the first failed
read_register_no_stop(hw, reg, o1, o2, cs_ok) ==
    Bind(read_io(hw, reg, o1, cs_ok), LAMBDA dummy :
        read_io(dummy.hw, reg, o2, cs_ok))

\* fn read_register: the first exchange latches the command, the second
\* returns the register
read_register(hw, reg, o1, o2, cs_ok) ==
    Try(read_io(hw, reg, o1, cs_ok), LAMBDA dummy :
        read_io(dummy.hw, reg, o2, cs_ok))

\* a plausible slip: the packet echoes the value written
write_register_echo(hw, reg, val, o, cs_ok) ==
    LET hw1 == cs_set(hw, "low", cs_ok)
        buffer == <<or_0x80(addr(reg)), val[1], val[2], val[3], val[4]>>
        hw2 == transfer(hw1, buffer, o)
    IN  IF ~o.ok THEN [hw |-> hw2, res |-> Err("Spi")]
        ELSE [hw |-> cs_set(hw2, "high", cs_ok),
              res |-> OkPacket(o.rx[1], from_be_bytes(val), buffer)]

\* fn write_register: one write datagram
write_register(hw, reg, val, o, cs_ok) ==
    LET hw1 == cs_set(hw, "low", cs_ok)
        buffer == <<or_0x80(addr(reg)), val[1], val[2], val[3], val[4]>>
        debug_val == buffer
        hw2 == transfer(hw1, buffer, o)
        hw3 == cs_set(hw2, "high", cs_ok)
        response == o.rx
        ret_val == [i \in 1..4 |-> response[i + 1]]
    IN  IF ~o.ok THEN [hw |-> hw2, res |-> Err("Spi")]
        ELSE [hw |-> hw3,
              res |-> OkPacket(response[1], from_be_bytes(ret_val), debug_val)]

(***************************************************************************)
(* Conversions between f32, integers and bit patterns.                     *)
(***************************************************************************)
\* i32 as f32: rounded to 24 significant bits, ties to even
i32_as_f32(w) ==
    LET x == Abs(w)
        k == BitLen(x) - 24
        mant == x \div 2^k
        rem == x % 2^k
        up == rem > 2^(k - 1) \/ (rem = 2^(k - 1) /\ mant % 2 = 1)
    IN  IF w = -(2^30) - 2^30 THEN F32(-1, 31)
        ELSE IF BitLen(x) <= 24 THEN F32(w, 0)
        ELSE F32(Sgn(w) * (mant + (IF up THEN 1 ELSE 0)), k)

\* f32::to_bits: sign, biased exponent, 23 fraction bits (normal numbers)
f32_to_bits(f) ==
    LET x == Abs(f.m)
        len == BitLen(x)
        bexp == f.e + len - 1 + 127
        frac == x * 2^(24 - len) - Two23
        mag == bexp * Two23 + frac
    IN  IF f.m = 0 THEN 0
        ELSE IF f.m < 0 THEN (mag - 2^30) - 2^30
        ELSE mag

\* f32::to_be_bytes
f32_to_be_bytes(f) == to_be_bytes(f32_to_bits(f))

\* fn speed_from_hz
speed_from_hz(speed_hz, clk, steps) ==
    f32_as_u32(f32_mul(f32_div(speed_hz, f32_div(clk, F_16_777_216)), steps))

\* fn accel_from_hz
accel_from_hz(accel_hz_per_s, clk, steps) ==
    f32_as_u32(
        f32_mul(
            f32_mul(
                f32_mul(f32_div(accel_hz_per_s, f32_mul(clk, clk)), F_512x256),
                F_16_777_216),
            steps))

(***************************************************************************)
(* The enable pin.  hw.en is "none" while no pin is attached.              *)
(***************************************************************************)
\* Ok(()) and Ok(value)
OkVal(v) == [ok |-> TRUE, err |-> "none", val |-> v]

\* pin.set_low() / pin.set_high() on the EN pin, mapped to Error::PinError
en_set(hw, level, pin_ok) ==
    [hw |-> [hw EXCEPT !.en = level,
                       !.wire = Append(@, Event("en_" \o level, pin_ok, <<>>, <<>>))],
     res |-> IF pin_ok THEN OkVal(0) ELSE Err("PinError")]

\* a plausible slip: the inversion flag left out of enable
enable_not_inverted(hw, inverted, en_ok) ==
    IF hw.en # "none"
    THEN en_set(hw, "low", en_ok)
    ELSE [hw |-> hw, res |-> OkVal(0)]

\* fn enable
enable(hw, inverted, en_ok) ==
    IF hw.en # "none"
    THEN IF inverted THEN en_set(hw, "high", en_ok) ELSE en_set(hw, "low", en_ok)
    ELSE [hw |-> hw, res |-> OkVal(0)]

\* fn disable
disable(hw, inverted, en_ok) ==
    IF hw.en # "none"
    THEN IF inverted THEN en_set(hw, "low", en_ok) ELSE en_set(hw, "high", en_ok)
    ELSE [hw |-> hw, res |-> OkVal(0)]

(***************************************************************************)
(* Operations built on read_register and write_register.  o is the tuple   *)
(* of the outcomes of the call's exchanges, in order.                      *)
(***************************************************************************)
\* the setters of a raw u32 register (set_global_scaler .. set_pwm_auto):
\* val.to_be_bytes() written to the setter's register
set_u32(hw, reg, val, o, cs_ok) ==
    write_register(hw, reg, to_be_bytes(val), o, cs_ok)

\* the registers of the raw setters, in the order of the source
SetterRegs ==
    {"GLOBALSCALER", "TPOWERDOWN", "TPWMTHRS", "TCOOLTHRS", "A1", "V1", "AMAX",
     "VMAX", "DMAX", "D1", "VSTART", "VSTOP", "PWM_AUTO"}

\* a plausible slip: the second write is issued although the first failed
set_home_no_stop(hw, o, cs_ok) ==
    Bind(to_be_bytes(0), LAMBDA val :
    Bind(write_register(hw, "XACTUAL", val, o[1], cs_ok), LAMBDA w1 :
        write_register(w1.hw, "XTARGET", val, o[2], cs_ok)))

\* fn set_home
set_home(hw, o, cs_ok) ==
    Bind(to_be_bytes(0), LAMBDA val :
    Try(write_register(hw, "XACTUAL", val, o[1], cs_ok), LAMBDA w1 :
        write_register(w1.hw, "XTARGET", val, o[2], cs_ok)))

\* a plausible slip: A1 and D1 written before AMAX and DMAX
set_acceleration_reordered(hw, acceleration, clk, steps, o, cs_ok) ==
    Bind(accel_from_hz(acceleration, clk, steps), LAMBDA a_max :
    Bind(to_be_bytes(a_max), LAMBDA val :
    Try(write_register(hw, "A1", val, o[1], cs_ok), LAMBDA w1 :
    Try(write_register(w1.hw, "D1", val, o[2], cs_ok), LAMBDA w2 :
    Try(write_register(w2.hw, "AMAX", val, o[3], cs_ok), LAMBDA w3 :
        write_register(w3.hw, "DMAX", val, o[4], cs_ok))))))

\* fn set_acceleration
set_acceleration(hw, acceleration, clk, steps, o, cs_ok) ==
    Bind(accel_from_hz(acceleration, clk, steps), LAMBDA a_max :
    Bind(to_be_bytes(a_max), LAMBDA val :
    Try(write_register(hw, "AMAX", val, o[1], cs_ok), LAMBDA w1 :
    Try(write_register(w1.hw, "DMAX", val, o[2], cs_ok), LAMBDA w2 :
    Try(write_register(w2.hw, "A1", val, o[3], cs_ok), LAMBDA w3 :
        write_register(w3.hw, "D1", val, o[4], cs_ok))))))

\* fn get_position: (XACTUAL as i32) as f32 / step_count
get_position(hw, steps, o1, o2, cs_ok) ==
    Try(read_register(hw, "XACTUAL", o1, o2, cs_ok), LAMBDA r :
        [hw |-> r.hw, res |-> OkVal(f32_div(i32_as_f32(r.res.data), steps))])

\* a plausible slip: the motor disabled after the registers are written
stop_disable_last(hw, inverted, steps, o, cs_ok, en_ok) ==
    Bind(to_be_bytes(0), LAMBDA val :
    Try(write_register(hw, "VSTART", val, o[1], cs_ok), LAMBDA w1 :
    Try(write_register(w1.hw, "VMAX", val, o[2], cs_ok), LAMBDA w2 :
    Try(get_position(w2.hw, steps, o[3], o[4], cs_ok), LAMBDA p :
    Bind(f32_to_be_bytes(p.res.val), LAMBDA position :
    Try(write_register(p.hw, "XTARGET", position, o[5], cs_ok), LAMBDA w5 :
    Try(disable(w5.hw, inverted, en_ok), LAMBDA d :
        [hw |-> d.hw, res |-> w5.res])))))))

\* fn stop
stop(hw, inverted, steps, o, cs_ok, en_ok) ==
    Try(disable(hw, inverted, en_ok), LAMBDA d :
    Bind(to_be_bytes(0), LAMBDA val :
    Try(write_register(d.hw, "VSTART", val, o[1], cs_ok), LAMBDA w1 :
    Try(write_register(w1.hw, "VMAX", val, o[2], cs_ok), LAMBDA w2 :
    Try(get_position(w2.hw, steps, o[3], o[4], cs_ok), LAMBDA p :
    Bind(f32_to_be_bytes(p.res.val), LAMBDA position :
        write_register(p.hw, "XTARGET", position, o[5], cs_ok)))))))

(***************************************************************************)
(* The driver.                                                             *)
(***************************************************************************)
VARIABLES
    cs,            \* level last commanded on chip-select: "low" (asserted) or "high"
    en,            \* level last commanded on EN, "none" while self.en is None
    v_max,         \* self.v_max, an f32
    status,        \* self.status, the byte of the SpiStatus
    debug,         \* self.debug
    clock,         \* self._clock, an f32
    step_count,    \* self._step_count, an f32
    en_inverted,   \* self._en_inverted
    g_conf, chop_conf, cool_conf, ihold_irun, pwm_conf, sw_mode, enc_mode,
                   \* the in-memory config registers, as their into_bytes()
    op,            \* the call that has returned: [name, reg, val], or Idle
    wire,          \* the pin commands and transfers of that call
    ret            \* what that call returned

pins == <<cs, en>>
context == <<v_max, clock, step_count, en_inverted>>
confs == <<g_conf, chop_conf, cool_conf, ihold_irun, pwm_conf, sw_mode, enc_mode>>
call == <<op, wire, ret>>
vars == <<pins, context, status, debug, confs, call>>

\* the f32 literals of fn new
F_12000000 == F32(46875, 8)
F_256 == F32(1, 8)

\* the bytes of a zero-initialised bit-field register
ZeroBytes == <<0, 0, 0, 0>>

\* no call is under way and no result is pending
Idle == [name |-> "idle", reg |-> "", val |-> 0]

\* fn new.  Chip-select idles high, as the board leaves it.
Init ==
    /\ cs = "high"
    /\ en = "none"
    /\ v_max = F32(0, 0)
    /\ status = 0
    /\ debug = <<0, 0, 0, 0, 0>>
    /\ clock = F_12000000
    /\ step_count = F_256
    /\ en_inverted = FALSE
    /\ g_conf = ZeroBytes
    /\ chop_conf = ZeroBytes
    /\ cool_conf = ZeroBytes
    /\ ihold_irun = ZeroBytes
    /\ pwm_conf = ZeroBytes
    /\ sw_mode = ZeroBytes
    /\ enc_mode = ZeroBytes
    /\ op = Idle
    /\ wire = <<>>
    /\ ret = OkVal(0)

\* the hardware as a call finds it
Hw == [cs |-> cs, en |-> en, wire |-> <<>>]

\* the caller is ready to make a call
CallerIdle == op.name = "idle"

\* a call leaves the pins as it drove them and hands its result to the caller
Returns(name, reg, val, r) ==
    /\ cs' = r.hw.cs
    /\ en' = r.hw.en
    /\ wire' = r.hw.wire
    /\ ret' = r.res
    /\ op' = [name |-> name, reg |-> reg, val |-> val]

\* the caller takes the result; the driver keeps no record of the call
TakeResult ==
    /\ op.name # "idle"
    /\ op' = Idle
    /\ wire' = <<>>
    /\ ret' = OkVal(0)
    /\ UNCHANGED <<pins, context, status, debug, confs>>

\* self.status = packet.status, reached only past the `?`
StatusFrom(r) == status' = IF r.res.ok THEN r.res.status ELSE status

Levels == {"low", "high"}

\* whether the EN pin obeys a command; with no pin attached there is no
\* command to answer
EnOutcomes == IF en = "none" THEN {TRUE} ELSE BOOLEAN

\* fn attach_en: the pin comes at either level
attach_en ==
    \E level \in Levels :
        /\ op.name = "idle"
        /\ en' = level
        /\ UNCHANGED <<cs, context, status, debug, confs, call>>

\* fn en_inverted
set_en_inverted ==
    \E inv \in BOOLEAN :
        /\ op.name = "idle"
        /\ en_inverted' = inv
        /\ UNCHANGED <<pins, v_max, clock, step_count, status, debug, confs, call>>

ReadRegister ==
    /\ CallerIdle
    /\ \E reg \in CallerRegs, o \in Scripts(2), cs_ok \in BOOLEAN :
        \E r \in {read_register(Hw, reg, o[1], o[2], cs_ok)} :
            /\ Returns("read_register", reg, 0, r)
            /\ UNCHANGED <<context, status, debug, confs>>

WriteRegister ==
    /\ CallerIdle
    /\ \E reg \in CallerRegs, w \in Words, o \in Outcomes, cs_ok \in BOOLEAN :
        \E val \in {to_be_bytes(w)} :
            \E r \in {write_register(Hw, reg, val, o, cs_ok)} :
                /\ Returns("write_register", reg, val, r)
                /\ UNCHANGED <<context, status, debug, confs>>

SetU32 ==
    /\ CallerIdle
    /\ \E reg \in SetterRegs, w \in Words, o \in Outcomes, cs_ok \in BOOLEAN :
        \E r \in {set_u32(Hw, reg, w, o, cs_ok)} :
            /\ Returns("set_u32", reg, w, r)
            /\ UNCHANGED <<context, status, debug, confs>>

\* a plausible slip: the status taken from the first write that answers,
\* whatever becomes of the call
SetHome_status_first ==
    /\ CallerIdle
    /\ \E o \in Scripts(2), cs_ok \in BOOLEAN :
        \E r \in {set_home(Hw, o, cs_ok)} :
            /\ Returns("set_home", "", 0, r)
            /\ status' = IF o[1].ok THEN o[1].rx[1] ELSE status
            /\ UNCHANGED <<context, debug, confs>>

SetHome ==
    /\ CallerIdle
    /\ \E o \in Scripts(2), cs_ok \in BOOLEAN :
        \E r \in {set_home(Hw, o, cs_ok)} :
            /\ Returns("set_home", "", 0, r)
            /\ StatusFrom(r)
            /\ UNCHANGED <<context, debug, confs>>

\* speeds and accelerations a caller passes: 1.0, 1000.0, 0.5, 7.25
HzTable == << F32(1, 0), F32(1000, 0), F32(1, -1), F32(29, -2) >>

Hz == {HzTable[i] : i \in 1..NumHz}

SetAcceleration ==
    /\ CallerIdle
    /\ \E a \in Hz, o \in Scripts(4), cs_ok \in BOOLEAN :
        \E r \in {set_acceleration(Hw, a, clock, step_count, o, cs_ok)} :
            /\ Returns("set_acceleration", "", a, r)
            /\ StatusFrom(r)
            /\ UNCHANGED <<context, debug, confs>>

\* a plausible slip: stop, having written 0 to VMAX, also clears the cache
Stop_clears_v_max ==
    /\ CallerIdle
    /\ \E o \in Scripts(5), cs_ok \in BOOLEAN, en_ok \in EnOutcomes :
        \E r \in {stop(Hw, en_inverted, step_count, o, cs_ok, en_ok)} :
            /\ Returns("stop", "", 0, r)
            /\ StatusFrom(r)
            /\ v_max' = IF r.res.ok THEN F32(0, 0) ELSE v_max
            /\ UNCHANGED <<clock, step_count, en_inverted, debug, confs>>

Stop ==
    /\ CallerIdle
    /\ \E o \in Scripts(5), cs_ok \in BOOLEAN, en_ok \in EnOutcomes :
        \E r \in {stop(Hw, en_inverted, step_count, o, cs_ok, en_ok)} :
            /\ Returns("stop", "", 0, r)
            /\ StatusFrom(r)
            /\ UNCHANGED <<context, debug, confs>>

(***************************************************************************)
(* Positions and the raw velocity.                                         *)
(***************************************************************************)
\* f32 as i32: truncation toward zero, saturating at i32::MIN and i32::MAX
f32_as_i32(f) ==
    IF f.m = 0 THEN 0
    ELSE IF f.e >= 0
         THEN IF BitLen(Abs(f.m)) + f.e >= 32
              THEN IF f.m < 0 THEN -(2^30) - 2^30 ELSE (2^30 - 1) + 2^30
              ELSE f.m * 2^f.e
    ELSE IF -f.e >= 30 THEN 0
    ELSE Sgn(f.m) * (Abs(f.m) \div 2^(-f.e))

\* u32 as f32, the u32 given as its bit pattern: rounded to nearest, ties to
\* even
u32_as_f32(w) ==
    LET top == ((w - (w % Two8)) \div Two8) + Two24
        low == w % Two8
        up == low > 128 \/ (low = 128 /\ top % 2 = 1)
    IN  IF w >= 0 THEN i32_as_f32(w)
        ELSE F32(top + (IF up THEN 1 ELSE 0), 8)

\* positions a caller passes: -2.5, -3/256, 0.3 (the nearest f32), -100.7,
\* 1.0
PosTable ==
    << F32(-5, -1), F32(-3, -8), F32(5033165, -24), F32(-6599475, -16), F32(1, 0) >>

Positions == {PosTable[i] : i \in 1..NumPos}

\* a plausible slip: the product rounded to the nearest step by adding 0.5
move_to_half_up(hw, inverted, target, steps, o, cs_ok, en_ok) ==
    Try(enable(hw, inverted, en_ok), LAMBDA e :
    Bind(f32_as_i32(f32_mul(target, steps)) + 1, LAMBDA t :
    Bind(to_be_bytes(t), LAMBDA val :
        write_register(e.hw, "XTARGET", val, o, cs_ok))))

\* fn move_to
move_to(hw, inverted, target, steps, o, cs_ok, en_ok) ==
    Try(enable(hw, inverted, en_ok), LAMBDA e :
    Bind(f32_as_i32(f32_mul(target, steps)), LAMBDA t :
    Bind(to_be_bytes(t), LAMBDA val :
        write_register(e.hw, "XTARGET", val, o, cs_ok))))

\* fn get_target: (XTARGET as i32) as f32 / step_count
get_target(hw, steps, o1, o2, cs_ok) ==
    Try(read_register(hw, "XTARGET", o1, o2, cs_ok), LAMBDA r :
        [hw |-> r.hw, res |-> OkVal(f32_div(i32_as_f32(r.res.data), steps))])

\* what the chip answers a read of XTARGET with: a word move_to wrote
TargetOutcomes ==
    {SpiFail} \cup
    {[ok |-> TRUE, rx |-> <<9>> \o to_be_bytes(f32_as_i32(f32_mul(x, step_count)))] :
        x \in Positions}

\* set_velocity_raw: velocity as f32 / _step_count * (_clock / 16_777_216.0)
raw_to_hz(velocity, clk, steps) ==
    f32_mul(f32_div(u32_as_f32(velocity), steps), f32_div(clk, F_16_777_216))

\* fn set_velocity_raw, after the assignment of self.v_max
set_velocity_raw(hw, velocity, o, cs_ok) ==
    Bind(to_be_bytes(velocity), LAMBDA val :
        write_register(hw, "VMAX", val, o, cs_ok))

Enable ==
    /\ CallerIdle
    /\ \E en_ok \in EnOutcomes :
        \E r \in {enable(Hw, en_inverted, en_ok)} :
            /\ Returns("enable", "", 0, r)
            /\ UNCHANGED <<context, status, debug, confs>>

Disable ==
    /\ CallerIdle
    /\ \E en_ok \in EnOutcomes :
        \E r \in {disable(Hw, en_inverted, en_ok)} :
            /\ Returns("disable", "", 0, r)
            /\ UNCHANGED <<context, status, debug, confs>>

MoveTo ==
    /\ CallerIdle
    /\ \E target \in Positions, o \in Outcomes, cs_ok \in BOOLEAN, en_ok \in EnOutcomes :
        \E r \in {move_to(Hw, en_inverted, target, step_count, o, cs_ok, en_ok)} :
            /\ Returns("move_to", "", target, r)
            /\ StatusFrom(r)
            /\ UNCHANGED <<context, debug, confs>>

GetTarget ==
    /\ CallerIdle
    /\ \E o1 \in Outcomes, o2 \in TargetOutcomes, cs_ok \in BOOLEAN :
        \E r \in {get_target(Hw, step_count, o1, o2, cs_ok)} :
            /\ Returns("get_target", "", 0, r)
            /\ UNCHANGED <<context, status, debug, confs>>

\* raw velocities a caller passes, as u32 bit patterns: 357 and 0xFFFFFF9C
RawVelocities == {357, -100}

SetVelocityRaw ==
    /\ CallerIdle
    /\ \E velocity \in RawVelocities, o \in Outcomes, cs_ok \in BOOLEAN :
        \E r \in {set_velocity_raw(Hw, velocity, o, cs_ok)} :
            /\ v_max' = raw_to_hz(velocity, clock, step_count)
            /\ Returns("set_velocity_raw", "", velocity, r)
            /\ StatusFrom(r)
            /\ UNCHANGED <<clock, step_count, en_inverted, debug, confs>>

\* fn get_velocity_max
GetVelocityMax ==
    /\ CallerIdle
    /\ Returns("get_velocity_max", "", 0, [hw |-> Hw, res |-> OkVal(v_max)])
    /\ UNCHANGED <<context, status, debug, confs>>

\* the exchanges, the enable pin and the operations built on them
Next ==
    \/ TakeResult
    \/ attach_en
    \/ set_en_inverted
    \/ ReadRegister
    \/ WriteRegister
    \/ SetU32
    \/ SetHome
    \/ SetAcceleration
    \/ Enable
    \/ Disable
    \/ MoveTo
    \/ Stop

Spec == Init /\ [][Next]_vars

(***************************************************************************)
(* Velocity.  The conversions are run with _step_count a power of two (the *)
(* chip's microstep resolutions) and VACTUAL a 24-bit register (the chip   *)
(* answers with the top byte 0).                                           *)
(***************************************************************************)
\* fn clock / fn step_count: the values a caller configures, 12 MHz and
\* 16 MHz, 256 and 16 microsteps
ClockTable == << F_12000000, F32(15625, 10) >>
StepTable == << F_256, F32(1, 4) >>

\* what the chip answers a read of VACTUAL with: 100, 0xFFFF9C, 0xFFFFFF,
\* 0x800000, 0x7FFFFF
VelTable ==
    << <<9, 0, 0, 0, 100>>,
       <<0, 0, 255, 255, 156>>,
       <<0, 0, 255, 255, 255>>,
       <<9, 0, 128, 0, 0>>,
       <<0, 0, 127, 255, 255>> >>

VelOutcomes == {SpiFail} \cup {[ok |-> TRUE, rx |-> VelTable[i]] : i \in 1..NumVel}

\* val.data & 0b100000000000000000000000 == 0b100000000000000000000000
Bit23(data) == (data \div Two23) % 2 = 1

\* a plausible slip: the offset is 2^23, as two's complement has it
velocity_ticks_twos(data) ==
    IF Bit23(data) THEN -(Two23 - (data % Two23)) ELSE data

\* the decoding of get_velocity, before the scaling:
\* -(8388607 - (val.data & 0x7FFFFF) as i32) or val.data as i32
velocity_ticks(data) ==
    IF Bit23(data) THEN -(8388607 - (data % Two23)) ELSE data

\* (ticks as f64 / _step_count as f64 * (_clock as f64 / 16_777_216.0)) as f32.
\* With the step count a power of two and |ticks| < 2^24 the f64 quotient and
\* product are exact (48 significant bits at most): the cast is the one rounding.
ticks_to_hz(ticks, clk, steps) ==
    f32_mul(f32_div(F32(ticks, 0), steps), f32_div(clk, F_16_777_216))

\* fn get_velocity
get_velocity(hw, clk, steps, o1, o2, cs_ok) ==
    Try(read_register(hw, "VACTUAL", o1, o2, cs_ok), LAMBDA r :
        [hw |-> r.hw,
         res |-> OkVal(ticks_to_hz(velocity_ticks(r.res.data), clk, steps))])

\* fn set_velocity, after self.v_max = velocity
set_velocity(hw, velocity, clk, steps, o, cs_ok) ==
    Bind(speed_from_hz(velocity, clk, steps), LAMBDA v :
    Bind(to_be_bytes(v), LAMBDA val :
        write_register(hw, "VMAX", val, o, cs_ok)))

\* fn clock
set_clock ==
    /\ CallerIdle
    /\ \E i \in DOMAIN ClockTable :
        /\ clock' = ClockTable[i]
        /\ UNCHANGED <<pins, v_max, step_count, en_inverted, status, debug, confs, call>>

\* fn step_count
set_step_count ==
    /\ CallerIdle
    /\ \E i \in DOMAIN StepTable :
        /\ step_count' = StepTable[i]
        /\ UNCHANGED <<pins, v_max, clock, en_inverted, status, debug, confs, call>>

SetVelocity ==
    /\ CallerIdle
    /\ \E velocity \in Hz, o \in Outcomes, cs_ok \in BOOLEAN :
        \E r \in {set_velocity(Hw, velocity, clock, step_count, o, cs_ok)} :
            /\ v_max' = velocity
            /\ Returns("set_velocity", "", velocity, r)
            /\ StatusFrom(r)
            /\ UNCHANGED <<clock, step_count, en_inverted, debug, confs>>

GetVelocity ==
    /\ CallerIdle
    /\ \E o1 \in Outcomes, o2 \in VelOutcomes, cs_ok \in BOOLEAN :
        \E r \in {get_velocity(Hw, clock, step_count, o1, o2, cs_ok)} :
            /\ Returns("get_velocity", "", 0, r)
            /\ UNCHANGED <<context, status, debug, confs>>

NextConv ==
    \/ TakeResult
    \/ set_clock
    \/ set_step_count
    \/ SetVelocity
    \/ GetVelocity
    \/ MoveTo
    \/ GetTarget

\* the conversions, under every configured clock and step count
SpecConv == Init /\ [][NextConv]_vars

(***************************************************************************)
(* The bit-field config registers.  A register is held as its packed      *)
(* bytes, what into_bytes() gives and from_bytes() takes.                  *)
(***************************************************************************)
\* the packings a caller gives a config register
ConfBytes == {ZeroBytes, <<156, 255, 255, 255>>}

ConfRegs == {"GCONF", "CHOPCONF", "COOLCONF", "IHOLD_IRUN", "PWMCONF", "SW_MODE", "ENCMODE"}

\* fn update_sw_mode
update_sw_mode(hw, reg, o, cs_ok) ==
    write_register(hw, "SW_MODE", swap_bytes(reg), o, cs_ok)

\* fn update_g_conf
update_g_conf(hw, reg, o, cs_ok) ==
    write_register(hw, "GCONF", swap_bytes(reg), o, cs_ok)

\* fn update_chop_conf
update_chop_conf(hw, reg, o, cs_ok) ==
    write_register(hw, "CHOPCONF", swap_bytes(reg), o, cs_ok)

\* fn update_cool_conf
update_cool_conf(hw, reg, o, cs_ok) ==
    write_register(hw, "COOLCONF", swap_bytes(reg), o, cs_ok)

\* fn update_ihold_irun
update_ihold_irun(hw, reg, o, cs_ok) ==
    write_register(hw, "IHOLD_IRUN", swap_bytes(reg), o, cs_ok)

\* fn update_pwm_conf
update_pwm_conf(hw, reg, o, cs_ok) ==
    write_register(hw, "PWMCONF", swap_bytes(reg), o, cs_ok)

\* fn update_enc_mode
update_enc_mode(hw, reg, o, cs_ok) ==
    write_register(hw, "ENCMODE", swap_bytes(reg), o, cs_ok)

\* fn read_gconf: GConf::from_bytes(packet.data.to_le_bytes()); the status
\* is carried to the action
read_gconf(hw, o1, o2, cs_ok) ==
    Try(read_register(hw, "GCONF", o1, o2, cs_ok), LAMBDA r :
        [hw |-> r.hw,
         res |-> [ok |-> TRUE, err |-> "none", status |-> r.res.status,
                  val |-> to_le_bytes(r.res.data)]])

\* the caller assigns a pub field: driver.g_conf = ..., driver.sw_mode = ...
assign_conf ==
    /\ CallerIdle
    /\ \E b \in ConfBytes :
        \/ g_conf' = b /\ UNCHANGED <<chop_conf, cool_conf, ihold_irun, pwm_conf, sw_mode, enc_mode>>
        \/ chop_conf' = b /\ UNCHANGED <<g_conf, cool_conf, ihold_irun, pwm_conf, sw_mode, enc_mode>>
        \/ cool_conf' = b /\ UNCHANGED <<g_conf, chop_conf, ihold_irun, pwm_conf, sw_mode, enc_mode>>
        \/ ihold_irun' = b /\ UNCHANGED <<g_conf, chop_conf, cool_conf, pwm_conf, sw_mode, enc_mode>>
        \/ pwm_conf' = b /\ UNCHANGED <<g_conf, chop_conf, cool_conf, ihold_irun, sw_mode, enc_mode>>
        \/ sw_mode' = b /\ UNCHANGED <<g_conf, chop_conf, cool_conf, ihold_irun, pwm_conf, enc_mode>>
        \/ enc_mode' = b /\ UNCHANGED <<g_conf, chop_conf, cool_conf, ihold_irun, pwm_conf, sw_mode>>
    /\ UNCHANGED <<pins, context, status, debug, call>>

\* what every update_<reg> leaves alone: the result goes back as it came
UpdateReturns(name, r) ==
    /\ Returns(name, "", 0, r)
    /\ UNCHANGED <<context, status, debug, confs>>

UpdateSwMode ==
    /\ CallerIdle
    /\ \E o \in Outcomes, cs_ok \in BOOLEAN :
        \E r \in {update_sw_mode(Hw, sw_mode, o, cs_ok)} : UpdateReturns("update_sw_mode", r)

UpdateGConf ==
    /\ CallerIdle
    /\ \E o \in Outcomes, cs_ok \in BOOLEAN :
        \E r \in {update_g_conf(Hw, g_conf, o, cs_ok)} : UpdateReturns("update_g_conf", r)

UpdateChopConf ==
    /\ CallerIdle
    /\ \E o \in Outcomes, cs_ok \in BOOLEAN :
        \E r \in {update_chop_conf(Hw, chop_conf, o, cs_ok)} : UpdateReturns("update_chop_conf", r)

UpdateCoolConf ==
    /\ CallerIdle
    /\ \E o \in Outcomes, cs_ok \in BOOLEAN :
        \E r \in {update_cool_conf(Hw, cool_conf, o, cs_ok)} : UpdateReturns("update_cool_conf", r)

UpdateIholdIrun ==
    /\ CallerIdle
    /\ \E o \in Outcomes, cs_ok \in BOOLEAN :
        \E r \in {update_ihold_irun(Hw, ihold_irun, o, cs_ok)} : UpdateReturns("update_ihold_irun", r)

UpdatePwmConf ==
    /\ CallerIdle
    /\ \E o \in Outcomes, cs_ok \in BOOLEAN :
        \E r \in {update_pwm_conf(Hw, pwm_conf, o, cs_ok)} : UpdateReturns("update_pwm_conf", r)

UpdateEncMode ==
    /\ CallerIdle
    /\ \E o \in Outcomes, cs_ok \in BOOLEAN :
        \E r \in {update_enc_mode(Hw, enc_mode, o, cs_ok)} : UpdateReturns("update_enc_mode", r)

\* a plausible slip: the read refreshes the in-memory copy
ReadGConf_store ==
    /\ CallerIdle
    /\ \E o \in Scripts(2), cs_ok \in BOOLEAN :
        \E r \in {read_gconf(Hw, o[1], o[2], cs_ok)} :
            /\ Returns("read_gconf", "", 0, r)
            /\ StatusFrom(r)
            /\ g_conf' = IF r.res.ok THEN r.res.val ELSE g_conf
            /\ UNCHANGED <<context, debug, chop_conf, cool_conf, ihold_irun, pwm_conf,
                           sw_mode, enc_mode>>

ReadGConf ==
    /\ CallerIdle
    /\ \E o \in Scripts(2), cs_ok \in BOOLEAN :
        \E r \in {read_gconf(Hw, o[1], o[2], cs_ok)} :
            /\ Returns("read_gconf", "", 0, r)
            /\ StatusFrom(r)
            /\ UNCHANGED <<context, debug, confs>>

NextConf ==
    \/ TakeResult
    \/ assign_conf
    \/ UpdateSwMode
    \/ UpdateGConf
    \/ UpdateChopConf
    \/ UpdateCoolConf
    \/ UpdateIholdIrun
    \/ UpdatePwmConf
    \/ UpdateEncMode
    \/ ReadGConf
    \/ ReadRegister
    \/ SetHome

\* the config registers among the caller's assignments, the updates and the
\* reads
SpecConf == Init /\ [][NextConf]_vars

(***************************************************************************)
(* The status registers and the motion-state predicates.  A decoded        *)
(* register is held as its packed bytes; a flag is one bit of them, the    *)
(* fields packed from the least significant bit of byte 0 as the chip's    *)
(* register map numbers them.                                              *)
(***************************************************************************)
\* what the chip answers a read of DRV_STATUS or RAMP_STAT with: the flags
\* the predicates return, set and clear
StatTable ==
    << <<9, 128, 0, 2, 1>>,
       <<0, 0, 0, 1, 2>>,
       <<3, 128, 0, 3, 3>>,
       <<1, 0, 0, 0, 0>> >>

StatOutcomes == {SpiFail} \cup {[ok |-> TRUE, rx |-> StatTable[i]] : i \in 1..NumStat}

\* the two exchanges of a status read
StatScripts == {o \in [1..2 -> StatOutcomes] : ~o[1].ok => ~o[2].ok}

\* bit n of a register's packed bytes
BitOf(bytes, n) == (bytes[(n \div 8) + 1] \div 2^(n % 8)) % 2 = 1

\* DrvStatus::standstill, RampStat::position_reached, velocity_reached,
\* status_stop_r, status_stop_l
standstill(reg) == BitOf(reg, 31)
position_reached(reg) == BitOf(reg, 9)
velocity_reached(reg) == BitOf(reg, 8)
status_stop_r(reg) == BitOf(reg, 1)
status_stop_l(reg) == BitOf(reg, 0)

\* Ok(value) of an operation that also hands packet.status to self.status
OkStatus(st, v) == [ok |-> TRUE, err |-> "none", status |-> st, val |-> v]

\* read_drv_status .. read_enc_status: from_bytes(packet.data.to_le_bytes())
read_status_reg(hw, reg, o1, o2, cs_ok) ==
    Try(read_register(hw, reg, o1, o2, cs_ok), LAMBDA r :
        [hw |-> r.hw, res |-> OkStatus(r.res.status, to_le_bytes(r.res.data))])

\* fn read_drv_status
read_drv_status(hw, o1, o2, cs_ok) == read_status_reg(hw, "DRV_STATUS", o1, o2, cs_ok)

\* fn read_ramp_status
read_ramp_status(hw, o1, o2, cs_ok) == read_status_reg(hw, "RAMP_STAT", o1, o2, cs_ok)

\* a plausible slip: the standstill bit returned as it is
is_moving_standstill(hw, o1, o2, cs_ok) ==
    Try(read_drv_status(hw, o1, o2, cs_ok), LAMBDA r :
        [hw |-> r.hw, res |-> [r.res EXCEPT !.val = standstill(@)]])

\* fn is_moving
is_moving(hw, o1, o2, cs_ok) ==
    Try(read_drv_status(hw, o1, o2, cs_ok), LAMBDA r :
        [hw |-> r.hw, res |-> [r.res EXCEPT !.val = ~standstill(@)]])

\* fn position_is_reached
position_is_reached(hw, o1, o2, cs_ok) ==
    Try(read_ramp_status(hw, o1, o2, cs_ok), LAMBDA r :
        [hw |-> r.hw, res |-> [r.res EXCEPT !.val = position_reached(@)]])

\* fn velocity_is_reached
velocity_is_reached(hw, o1, o2, cs_ok) ==
    Try(read_ramp_status(hw, o1, o2, cs_ok), LAMBDA r :
        [hw |-> r.hw, res |-> [r.res EXCEPT !.val = velocity_reached(@)]])

\* fn is_at_limit_r
is_at_limit_r(hw, o1, o2, cs_ok) ==
    Try(read_ramp_status(hw, o1, o2, cs_ok), LAMBDA r :
        [hw |-> r.hw, res |-> [r.res EXCEPT !.val = status_stop_r(@)]])

\* fn is_at_limit_l
is_at_limit_l(hw, o1, o2, cs_ok) ==
    Try(read_ramp_status(hw, o1, o2, cs_ok), LAMBDA r :
        [hw |-> r.hw, res |-> [r.res EXCEPT !.val = status_stop_l(@)]])

\* what a status read and a predicate built on it leave behind:
\* self.status = packet.status inside read_drv_status / read_ramp_status
StatusReadReturns(name, r) ==
    /\ Returns(name, "", 0, r)
    /\ StatusFrom(r)
    /\ UNCHANGED <<context, debug, confs>>

ReadDrvStatus ==
    /\ CallerIdle
    /\ \E o \in StatScripts, cs_ok \in BOOLEAN :
        \E r \in {read_drv_status(Hw, o[1], o[2], cs_ok)} :
            StatusReadReturns("read_drv_status", r)

ReadRampStatus ==
    /\ CallerIdle
    /\ \E o \in StatScripts, cs_ok \in BOOLEAN :
        \E r \in {read_ramp_status(Hw, o[1], o[2], cs_ok)} :
            StatusReadReturns("read_ramp_status", r)

IsMoving ==
    /\ CallerIdle
    /\ \E o \in StatScripts, cs_ok \in BOOLEAN :
        \E r \in {is_moving(Hw, o[1], o[2], cs_ok)} :
            StatusReadReturns("is_moving", r)

PositionIsReached ==
    /\ CallerIdle
    /\ \E o \in StatScripts, cs_ok \in BOOLEAN :
        \E r \in {position_is_reached(Hw, o[1], o[2], cs_ok)} :
            StatusReadReturns("position_is_reached", r)

VelocityIsReached ==
    /\ CallerIdle
    /\ \E o \in StatScripts, cs_ok \in BOOLEAN :
        \E r \in {velocity_is_reached(Hw, o[1], o[2], cs_ok)} :
            StatusReadReturns("velocity_is_reached", r)

IsAtLimitR ==
    /\ CallerIdle
    /\ \E o \in StatScripts, cs_ok \in BOOLEAN :
        \E r \in {is_at_limit_r(Hw, o[1], o[2], cs_ok)} :
            StatusReadReturns("is_at_limit_r", r)

IsAtLimitL ==
    /\ CallerIdle
    /\ \E o \in StatScripts, cs_ok \in BOOLEAN :
        \E r \in {is_at_limit_l(Hw, o[1], o[2], cs_ok)} :
            StatusReadReturns("is_at_limit_l", r)

NextMotion ==
    \/ TakeResult
    \/ ReadDrvStatus
    \/ ReadRampStatus
    \/ IsMoving
    \/ PositionIsReached
    \/ VelocityIsReached
    \/ IsAtLimitR
    \/ IsAtLimitL

\* the status reads and the motion-state predicates, call after call
SpecMotion == Init /\ [][NextMotion]_vars

(***************************************************************************)
(* The legacy entry points.  They take the register as a raw u8, return no *)
(* Result, and drop every error.                                           *)
(***************************************************************************)
\* the registers a caller passes: three of the register map, and one with
\* the write bit already set
LegacyRegs == {addr(reg) : reg \in CallerRegs} \cup {161}

\* the caller's 5-byte buffer before old_read_register
LegacyBuffers == {<<0, 0, 0, 0, 0>>, <<1, 2, 3, 4, 5>>}

\* match self.spi.transfer(&mut read_cmd) { Ok(r) => buffer[0..5] = r[0..5], Err(_) => {} }
old_read_exchange(st, register, o, cs_ok) ==
    LET hw1 == cs_set(st.hw, "low", cs_ok)
        hw2 == transfer(hw1, <<register, 0, 0, 0, 0>>, o)
        hw3 == cs_set(hw2, "high", cs_ok)
    IN  [hw |-> hw3, buffer |-> IF o.ok THEN o.rx ELSE st.buffer]

\* a plausible slip: the second exchange left out when the first failed
old_read_register_stop(hw, register, buffer, o1, o2, cs_ok) ==
    LET first == old_read_exchange([hw |-> hw, buffer |-> buffer], register, o1, cs_ok)
    IN  IF ~o1.ok THEN [hw |-> first.hw, res |-> OkVal(first.buffer)]
        ELSE LET second == old_read_exchange(first, register, o2, cs_ok)
             IN  [hw |-> second.hw, res |-> OkVal(second.buffer)]

\* fn old_read_register; the value of the result is the buffer on return
old_read_register(hw, register, buffer, o1, o2, cs_ok) ==
    LET first == old_read_exchange([hw |-> hw, buffer |-> buffer], register, o1, cs_ok)
        second == old_read_exchange(first, register, o2, cs_ok)
    IN  [hw |-> second.hw, res |-> OkVal(second.buffer)]

\* fn old_write_register; the value of the result is status_byte
old_write_register(hw, register, payload, o, cs_ok) ==
    LET hw1 == cs_set(hw, "low", cs_ok)
        buffer == <<or_0x80(register)>> \o payload
        hw2 == transfer(hw1, buffer, o)
        status_byte == IF o.ok THEN o.rx[1] ELSE 0
        hw3 == cs_set(hw2, "high", cs_ok)
    IN  [hw |-> hw3, res |-> OkVal(status_byte)]

OldReadRegister ==
    /\ CallerIdle
    /\ \E register \in LegacyRegs, buffer \in LegacyBuffers,
          o1 \in Outcomes, o2 \in Outcomes, cs_ok \in BOOLEAN :
        \E r \in {old_read_register(Hw, register, buffer, o1, o2, cs_ok)} :
            /\ Returns("old_read_register", register, buffer, r)
            /\ UNCHANGED <<context, status, debug, confs>>

OldWriteRegister ==
    /\ CallerIdle
    /\ \E register \in LegacyRegs, w \in Words, o \in Outcomes, cs_ok \in BOOLEAN :
        \E payload \in {to_be_bytes(w)} :
            \E r \in {old_write_register(Hw, register, payload, o, cs_ok)} :
                /\ Returns("old_write_register", register, payload, r)
                /\ UNCHANGED <<context, status, debug, confs>>

NextLegacy ==
    \/ TakeResult
    \/ OldReadRegister
    \/ OldWriteRegister

\* the legacy entry points, call after call
SpecLegacy == Init /\ [][NextLegacy]_vars

(***************************************************************************)
(* The motor context among the builders, the velocity setters and the      *)
(* moves.                                                                  *)
(***************************************************************************)
NextFrame ==
    \/ TakeResult
    \/ set_en_inverted
    \/ set_clock
    \/ set_step_count
    \/ SetVelocity
    \/ SetVelocityRaw
    \/ GetVelocityMax
    \/ MoveTo
    \/ Stop

SpecFrame == Init /\ [][NextFrame]_vars

(***************************************************************************)
(* The cached status among the operations that assign it and operations    *)
(* that do not.                                                            *)
(***************************************************************************)
\* fn read_gstat, which also keeps packet.debug
read_gstat(hw, o1, o2, cs_ok) ==
    Try(read_register(hw, "GSTAT", o1, o2, cs_ok), LAMBDA r :
        [hw |-> r.hw,
         res |-> [ok |-> TRUE, err |-> "none", status |-> r.res.status,
                  val |-> to_le_bytes(r.res.data), debug |-> r.res.debug]])

\* fn read_enc_status
read_enc_status(hw, o1, o2, cs_ok) == read_status_reg(hw, "ENC_STATUS", o1, o2, cs_ok)

ReadGstat ==
    /\ CallerIdle
    /\ \E o \in Scripts(2), cs_ok \in BOOLEAN :
        \E r \in {read_gstat(Hw, o[1], o[2], cs_ok)} :
            /\ Returns("read_gstat", "", 0, r)
            /\ StatusFrom(r)
            /\ debug' = IF r.res.ok THEN r.res.debug ELSE debug
            /\ UNCHANGED <<context, confs>>

ReadEncStatus ==
    /\ CallerIdle
    /\ \E o \in Scripts(2), cs_ok \in BOOLEAN :
        \E r \in {read_enc_status(Hw, o[1], o[2], cs_ok)} :
            StatusReadReturns("read_enc_status", r)

NextStatus ==
    \/ TakeResult
    \/ ReadDrvStatus
    \/ ReadGstat
    \/ ReadGConf
    \/ ReadRampStatus
    \/ ReadEncStatus
    \/ SetHome
    \/ Stop
    \/ SetVelocity
    \/ SetVelocityRaw
    \/ SetAcceleration
    \/ MoveTo
    \/ IsMoving
    \/ PositionIsReached
    \/ ReadRegister
    \/ WriteRegister
    \/ UpdateGConf
    \/ GetVelocity
    \/ GetTarget

SpecStatus == Init /\ [][NextStatus]_vars

(***************************************************************************)
(* What the claims read off a call.                                        *)
(***************************************************************************)
\* the bus exchanges of the call, in order
Transfers(w) == SelectSeq(w, LAMBDA e : e.ev = "transfer")

\* the kinds of the events of the call, in order
Kinds(w) == [i \in 1..Len(w) |-> w[i].ev]

\* the 4 data bytes of a 5-byte frame
DataBytes(frame) == SubSeq(frame, 2, 5)

\* the 32-bit word whose big-endian bytes are b, as its bit pattern
BeValue(b) ==
    LET low31 == (b[1] % 128) * Two24 + b[2] * Two16 + b[3] * Two8 + b[4]
    IN  IF b[1] >= 128 THEN (low31 - 2^30) - 2^30 ELSE low31

\* a chip-select command of the call failed
CsPinFailed == \E i \in 1..Len(wire) : wire[i].ev \in {"cs_low", "cs_high"} /\ ~wire[i].ok

(***************************************************************************)
(* C1: whenever a driver operation has returned, with Ok or with a bus     *)
(* error, and in every state between two operations, the level last        *)
(* commanded on chip-select is high.  The code returns through `?` before  *)
(* cs.set_high() when the transfer fails.                                  *)
(***************************************************************************)
C1_ChipSelectReleased == cs = "high"

(***************************************************************************)
(* C2: a successful read_register(A) is exactly two exchanges, each        *)
(* bracketed by chip-select low and high, both sending [A, 0, 0, 0, 0]     *)
(* with the top bit of A clear; the packet is the status byte and the      *)
(* big-endian data of the second response, whatever the first was and      *)
(* whatever earlier calls read.                                            *)
(***************************************************************************)
C2_ReadIsTwoExchanges ==
    (op.name = "read_register" /\ ret.ok) =>
        LET t == Transfers(wire)
        IN  /\ Len(t) = 2
            /\ Kinds(wire) =
                   <<"cs_low", "transfer", "cs_high", "cs_low", "transfer", "cs_high">>
            /\ \A i \in 1..2 :
                   /\ t[i].tx = <<addr(op.reg), 0, 0, 0, 0>>
                   /\ t[i].tx[1] \in 0..127
            /\ ret.status = t[2].rx[1]
            /\ ret.data = BeValue(DataBytes(t[2].rx))
            /\ ret.debug = t[2].rx

\* a read whose two responses differ in status and in data has returned
C2_Witness ==
    /\ op.name = "read_register"
    /\ ret.ok
    /\ Len(Transfers(wire)) = 2
    /\ Transfers(wire)[1].rx[1] # Transfers(wire)[2].rx[1]
    /\ DataBytes(Transfers(wire)[1].rx) # DataBytes(Transfers(wire)[2].rx)

(***************************************************************************)
(* C3: write_register(A, D) is exactly one exchange sending [A | 0x80, D]; *)
(* when it succeeds the packet's status is the first received byte and its *)
(* data the received bytes 1..4 read big-endian: what the chip sent, not   *)
(* D.  The raw setters send their u32 big-endian.                          *)
(***************************************************************************)
C3_WriteIsOneExchange ==
    /\ (op.name = "write_register") =>
           LET t == Transfers(wire)
           IN  /\ Len(t) = 1
               /\ t[1].tx = <<addr(op.reg) + 128>> \o op.val
               /\ ret.ok = t[1].ok
               /\ ret.ok =>
                      /\ Kinds(wire) = <<"cs_low", "transfer", "cs_high">>
                      /\ ret.status = t[1].rx[1]
                      /\ ret.data = BeValue(DataBytes(t[1].rx))
    /\ (op.name = "set_u32") =>
           /\ Len(Transfers(wire)) = 1
           /\ BeValue(DataBytes(Transfers(wire)[1].tx)) = op.val

\* a write has succeeded whose response data differs from the data written
C3_Witness ==
    /\ op.name = "write_register"
    /\ ret.ok
    /\ DataBytes(Transfers(wire)[1].rx) # op.val
    /\ ret.data # BeValue(op.val)

(***************************************************************************)
(* C4: in read_register, the raw setters, set_home, set_acceleration and   *)
(* stop, the exchanges issued are a prefix of the operation's fixed        *)
(* sequence; an exchange that fails is the last event of the call, the     *)
(* call returns Error::Spi, and the exchanges before it all succeeded and  *)
(* are left as they were.                                                  *)
(***************************************************************************)
\* the address bytes of the exchanges an operation issues when none fails
Plan(o) ==
    CASE o.name = "read_register" -> <<addr(o.reg), addr(o.reg)>>
      [] o.name = "set_u32" -> <<addr(o.reg) + 128>>
      [] o.name = "set_home" -> <<addr("XACTUAL") + 128, addr("XTARGET") + 128>>
      [] o.name = "set_acceleration" ->
             <<addr("AMAX") + 128, addr("DMAX") + 128, addr("A1") + 128,
               addr("D1") + 128>>
      [] o.name = "stop" ->
             <<addr("VSTART") + 128, addr("VMAX") + 128, addr("XACTUAL"),
               addr("XACTUAL"), addr("XTARGET") + 128>>

C4_FirstErrorStopsTheCall ==
    (op.name \in {"read_register", "set_u32", "set_home", "set_acceleration", "stop"}) =>
        LET t == Transfers(wire)
            plan == Plan(op)
        IN  /\ Len(t) <= Len(plan)
            /\ \A i \in 1..Len(t) : t[i].tx[1] = plan[i]
            /\ \A i \in 1..Len(t) :
                   ~t[i].ok =>
                       /\ i = Len(t)
                       /\ wire[Len(wire)] = t[i]
                       /\ ret = Err("Spi")
            /\ ret.ok <=> (Len(t) = Len(plan) /\ \A i \in 1..Len(t) : t[i].ok)

\* stop has returned having failed at its third exchange, and
\* set_acceleration at its second
C4_Witness ==
    \/ /\ op.name = "stop"
       /\ Len(Transfers(wire)) = 3
       /\ ~Transfers(wire)[3].ok
       /\ ret = Err("Spi")
    \/ /\ op.name = "set_acceleration"
       /\ Len(Transfers(wire)) = 2
       /\ ~Transfers(wire)[2].ok

(***************************************************************************)
(* C5: a successful set_acceleration(a) is exactly four writes, to AMAX,   *)
(* DMAX, A1 and D1 in that order, each carrying the same value, the        *)
(* converted acceleration; the packet returned is that of the D1 write.    *)
(***************************************************************************)
C5_AccelerationWrites ==
    (op.name = "set_acceleration" /\ ret.ok) =>
        LET t == Transfers(wire)
        IN  /\ Len(t) = 4
            /\ t[1].tx[1] = addr("AMAX") + 128
            /\ t[2].tx[1] = addr("DMAX") + 128
            /\ t[3].tx[1] = addr("A1") + 128
            /\ t[4].tx[1] = addr("D1") + 128
            /\ \A i \in 1..4 :
                   /\ DataBytes(t[i].tx) = DataBytes(t[1].tx)
                   /\ BeValue(DataBytes(t[i].tx)) = accel_from_hz(op.val, clock, step_count)
            /\ ret.status = t[4].rx[1]
            /\ ret.data = BeValue(DataBytes(t[4].rx))
            /\ ret.debug = t[4].tx

\* set_acceleration has succeeded with a value that is not 0, the D1 write
\* answered unlike the AMAX write
C5_Witness ==
    /\ op.name = "set_acceleration"
    /\ ret.ok
    /\ BeValue(DataBytes(Transfers(wire)[1].tx)) > 0
    /\ Transfers(wire)[4].rx # Transfers(wire)[1].rx

(***************************************************************************)
(* C6: when a chip-select command fails during read_register or            *)
(* write_register, the call returns Error::PinError.  The code drops the   *)
(* pin's answer (`.ok()`) and goes on.                                     *)
(***************************************************************************)
C6_CsPinFailureSurfaced ==
    (op.name \in {"read_register", "write_register"} /\ CsPinFailed) =>
        (~ret.ok /\ ret.err = "PinError")

(***************************************************************************)
(* C7: get_velocity decodes VACTUAL, before the scaling to Hz, to +n for   *)
(* a word n with bit 23 clear (0 <= n < 2^23), and to -n for the word with *)
(* bit 23 set and low-23-bit field 0x7FFFFF - (n - 1), n in 1..2^23: field *)
(* 0x7FFFFF - 99 is -100.  The code subtracts the field from 8388607, not  *)
(* from 8388608, and decodes that word to -99.                             *)
(***************************************************************************)
\* the ticks the claim gives a VACTUAL word
ClaimedTicks(data) ==
    IF Bit23(data) THEN -(8388607 - (data % Two23) + 1) ELSE data

C7_VelocityDecode ==
    (op.name = "get_velocity" /\ ret.ok) =>
        LET data == BeValue(DataBytes(Transfers(wire)[2].rx))
        IN  ret.val = ticks_to_hz(ClaimedTicks(data), clock, step_count)

(***************************************************************************)
(* C8: set_velocity(s) writes to VMAX s / (clock / 2^24) * microsteps      *)
(* rounded to the nearest integer: 358 for 1 Hz at 12 MHz and 256          *)
(* microsteps.  The code casts with `as u32`, which truncates: 357.        *)
(***************************************************************************)
\* a positive f32 rounded to the nearest integer
f32_round(f) ==
    IF f.m <= 0 THEN 0
    ELSE IF f.e >= 0 THEN f.m * 2^f.e
    ELSE IF -f.e >= 30 THEN 0
    ELSE (f.m + 2^(-f.e - 1)) \div 2^(-f.e)

C8_VelocityRounded ==
    (op.name = "set_velocity") =>
        LET written == BeValue(DataBytes(Transfers(wire)[1].tx))
            exact == f32_mul(f32_div(op.val, f32_div(clock, F_16_777_216)), step_count)
        IN  /\ Transfers(wire)[1].tx[1] = addr("VMAX") + 128
            /\ written = f32_round(exact)
            /\ (op.val = F32(1, 0) /\ clock = F_12000000 /\ step_count = F_256)
                   => written = 358

(***************************************************************************)
(* C9: update_<reg> transmits as its 4 data bytes the reversal of the      *)
(* register's packed bytes, read_gconf decodes from the reversal of the 4  *)
(* received data bytes, so a packing b that the chip returns as it was     *)
(* sent decodes to b; swap_bytes is its own inverse.                       *)
(***************************************************************************)
Reversed(b) == <<b[4], b[3], b[2], b[1]>>

ByteVals == {0, 18, 156, 255}

\* the in-memory copy an update_<reg> call sends
UpdateOf ==
    [update_sw_mode |-> sw_mode, update_g_conf |-> g_conf,
     update_chop_conf |-> chop_conf, update_cool_conf |-> cool_conf,
     update_ihold_irun |-> ihold_irun, update_pwm_conf |-> pwm_conf,
     update_enc_mode |-> enc_mode]

C9_ReversedOncePerDirection ==
    /\ \A b \in [1..4 -> ByteVals] : swap_bytes(swap_bytes(b)) = b
    /\ op.name \in DOMAIN UpdateOf =>
           /\ Len(Transfers(wire)) = 1
           /\ DataBytes(Transfers(wire)[1].tx) = Reversed(UpdateOf[op.name])
    /\ (op.name = "read_gconf" /\ ret.ok) =>
           /\ ret.val = Reversed(DataBytes(Transfers(wire)[2].rx))
           /\ \A b \in ConfBytes :
                  DataBytes(Transfers(wire)[2].rx) = Reversed(b) => ret.val = b

\* read_gconf decoded the wire bytes update_g_conf sends for the in-memory
\* copy, a packing that its reversal changes
C9_Witness ==
    /\ op.name = "read_gconf"
    /\ ret.ok
    /\ g_conf # Reversed(g_conf)
    /\ DataBytes(Transfers(wire)[2].rx) = Reversed(g_conf)
    /\ ret.val = g_conf

(***************************************************************************)
(* C10: an in-memory config register goes to the chip only in the          *)
(* update_<reg> call for that register, and no driver operation, read_gconf*)
(* included, changes an in-memory copy: only the caller's assignment does. *)
(***************************************************************************)
\* the update_<reg> call of each config register
UpdateName ==
    [GCONF |-> "update_g_conf", CHOPCONF |-> "update_chop_conf",
     COOLCONF |-> "update_cool_conf", IHOLD_IRUN |-> "update_ihold_irun",
     PWMCONF |-> "update_pwm_conf", SW_MODE |-> "update_sw_mode",
     ENCMODE |-> "update_enc_mode"]

C10_ConfsOnlyByCaller ==
    /\ [](\A i \in DOMAIN Transfers(wire) : \A reg \in ConfRegs :
             Transfers(wire)[i].tx[1] = addr(reg) + 128 => op.name = UpdateName[reg])
    /\ [][assign_conf \/ UNCHANGED confs]_vars

\* read_gconf decoded a register that differs from the in-memory copy the
\* caller set, and the copy stayed
C10_Witness ==
    /\ op.name = "read_gconf"
    /\ ret.ok
    /\ g_conf # ZeroBytes
    /\ ret.val # g_conf

(***************************************************************************)
(* C11: each call of a motion-state predicate is one fresh two-exchange    *)
(* read, of DRV_STATUS for is_moving and of RAMP_STAT for the other four,  *)
(* and its answer is one bit of that read's second response (negated for   *)
(* is_moving): nothing of an earlier call enters it.                       *)
(***************************************************************************)
\* the register a predicate reads and the bit it returns
PredicateReg ==
    [is_moving |-> "DRV_STATUS", position_is_reached |-> "RAMP_STAT",
     velocity_is_reached |-> "RAMP_STAT", is_at_limit_r |-> "RAMP_STAT",
     is_at_limit_l |-> "RAMP_STAT"]
PredicateBit ==
    [is_moving |-> 31, position_is_reached |-> 9, velocity_is_reached |-> 8,
     is_at_limit_r |-> 1, is_at_limit_l |-> 0]

\* bit n of a big-endian data word on the wire
WireBit(data, n) == (data[4 - (n \div 8)] \div 2^(n % 8)) % 2 = 1

C11_PredicateFromFreshRead ==
    (op.name \in DOMAIN PredicateReg /\ ret.ok) =>
        LET t == Transfers(wire)
            bit == WireBit(DataBytes(t[2].rx), PredicateBit[op.name])
        IN  /\ Len(t) = 2
            /\ \A i \in 1..2 : t[i].tx = <<addr(PredicateReg[op.name]), 0, 0, 0, 0>>
            /\ ret.val = IF op.name = "is_moving" THEN ~bit ELSE bit

\* is_moving answered TRUE from a second response whose standstill bit is
\* clear, after a first response that has it set
C11_Witness ==
    /\ op.name = "is_moving"
    /\ ret.ok
    /\ ret.val = TRUE
    /\ WireBit(DataBytes(Transfers(wire)[1].rx), 31)
    /\ ~WireBit(DataBytes(Transfers(wire)[2].rx), 31)

(***************************************************************************)
(* C12: whenever a transfer inside old_read_register fails, the caller's   *)
(* 5-byte buffer on return equals its contents before the call.  The code  *)
(* copies each response that arrives: with one exchange failing and the    *)
(* other succeeding the buffer holds the response of the one that          *)
(* succeeded.                                                              *)
(***************************************************************************)
C12_BufferKeptOnFailure ==
    (op.name = "old_read_register"
        /\ \E i \in DOMAIN Transfers(wire) : ~Transfers(wire)[i].ok)
    => ret.val = op.val

(***************************************************************************)
(* C20: the legacy entry points always run their whole exchange sequence   *)
(* and leave chip-select released: old_read_register is two exchanges (the *)
(* second also after a failed first), old_write_register one, each between *)
(* chip-select low and high whatever the transfer returned;                *)
(* old_write_register returns the first response byte, or 0 when the       *)
(* transfer failed.                                                        *)
(***************************************************************************)
C20_LegacyRunsToTheEnd ==
    /\ op.name = "old_read_register" =>
           /\ Kinds(wire) =
                  <<"cs_low", "transfer", "cs_high", "cs_low", "transfer", "cs_high">>
           /\ \A i \in 1..2 : Transfers(wire)[i].tx = <<op.reg, 0, 0, 0, 0>>
           /\ cs = "high"
    /\ op.name = "old_write_register" =>
           /\ Kinds(wire) = <<"cs_low", "transfer", "cs_high">>
           /\ Transfers(wire)[1].tx[1] \in {op.reg, op.reg + 128}
           /\ Transfers(wire)[1].tx[1] >= 128
           /\ DataBytes(Transfers(wire)[1].tx) = op.val
           /\ cs = "high"
           /\ ret.val = IF Transfers(wire)[1].ok THEN Transfers(wire)[1].rx[1] ELSE 0

\* old_read_register went on to a second exchange, which succeeded, after
\* its first transfer failed
C20_Witness ==
    /\ op.name = "old_read_register"
    /\ ~Transfers(wire)[1].ok
    /\ Transfers(wire)[2].ok
    /\ cs = "high"

(***************************************************************************)
(* C13: clock, microsteps and the enable-inversion flag change only in     *)
(* their builder calls, never in a runtime operation; v_max changes only   *)
(* inside set_velocity and set_velocity_raw, and stop, which writes 0 to   *)
(* VMAX, leaves it as it was.                                              *)
(***************************************************************************)
C13_ContextFrame ==
    /\ [][clock' # clock => set_clock]_vars
    /\ [][step_count' # step_count => set_step_count]_vars
    /\ [][en_inverted' # en_inverted => set_en_inverted]_vars
    /\ [][v_max' # v_max => op'.name \in {"set_velocity", "set_velocity_raw"}]_vars
    /\ [][op'.name = "stop" => v_max' = v_max]_vars

\* stop has written 0 to VMAX while the cached maximum velocity is not 0
C13_Witness ==
    /\ op.name = "stop"
    /\ ret.ok
    /\ Transfers(wire)[2].tx = <<addr("VMAX") + 128, 0, 0, 0, 0>>
    /\ v_max # F32(0, 0)

(***************************************************************************)
(* C14: for a position x, negatives included, that is a whole number of    *)
(* microsteps below 2^24, move_to(x) writes the two's-complement           *)
(* big-endian word x * microsteps to XTARGET and get_target, the chip      *)
(* returning that word, yields exactly x; for any other x the position     *)
(* recovered from the word move_to wrote is less than one microstep from x.*)
(***************************************************************************)
\* x is a whole number of microsteps: x = m * 2^e with m odd, microsteps 2^k
WholeSteps(x, steps) == x.m = 0 \/ x.e + steps.e >= 0

\* x * microsteps, for such an x
StepsOf(x, steps) == x.m * 2^(x.e + steps.e)

\* |r - x| < 1 / microsteps, in the integers: all three scaled by 2^j
WithinOneStep(r, x, steps) ==
    LET lowest == IF r.e < x.e THEN r.e ELSE x.e
        j == IF -steps.e < lowest THEN steps.e ELSE -lowest
    IN  Abs(r.m * 2^(r.e + j) - x.m * 2^(x.e + j)) < 2^(j - steps.e)

C14_PositionRoundTrip ==
    /\ (op.name = "move_to" /\ Len(Transfers(wire)) = 1 /\ WholeSteps(op.val, step_count)) =>
           /\ Transfers(wire)[1].tx[1] = addr("XTARGET") + 128
           /\ BeValue(DataBytes(Transfers(wire)[1].tx)) = StepsOf(op.val, step_count)
    /\ (op.name = "get_target" /\ ret.ok) =>
           \A x \in Positions :
               LET word == BeValue(DataBytes(Transfers(wire)[2].rx))
               IN  /\ (WholeSteps(x, step_count) /\ word = StepsOf(x, step_count))
                          => ret.val = x
                   /\ word = f32_as_i32(f32_mul(x, step_count))
                          => WithinOneStep(ret.val, x, step_count)

\* get_target gave back a negative position of a whole number of microsteps
C14_Witness ==
    /\ op.name = "get_target"
    /\ ret.ok
    /\ ret.val \in Positions
    /\ ret.val.m < 0
    /\ BeValue(DataBytes(Transfers(wire)[2].rx)) = StepsOf(ret.val, step_count)

(***************************************************************************)
(* C15: a successful stop is, in this order: the enable pin driven to its  *)
(* disabled level when a pin is attached, 0 written to VSTART, 0 written   *)
(* to VMAX, XACTUAL read in two exchanges, XTARGET written: five exchanges *)
(* in all; the packet returned and the cached status are those of the      *)
(* XTARGET write.                                                          *)
(***************************************************************************)
Exchange == <<"cs_low", "transfer", "cs_high">>

C15_StopSequence ==
    (op.name = "stop" /\ ret.ok) =>
        LET t == Transfers(wire)
            disabled == IF en_inverted THEN "low" ELSE "high"
        IN  /\ Len(t) = 5
            /\ t[1].tx = <<addr("VSTART") + 128, 0, 0, 0, 0>>
            /\ t[2].tx = <<addr("VMAX") + 128, 0, 0, 0, 0>>
            /\ t[3].tx = <<addr("XACTUAL"), 0, 0, 0, 0>>
            /\ t[4].tx = <<addr("XACTUAL"), 0, 0, 0, 0>>
            /\ t[5].tx[1] = addr("XTARGET") + 128
            /\ Kinds(wire) =
                   (IF en = "none" THEN <<>> ELSE <<"en_" \o disabled>>)
                       \o Exchange \o Exchange \o Exchange \o Exchange \o Exchange
            /\ en # "none" => (wire[1].ok /\ en = disabled)
            /\ ret.status = t[5].rx[1]
            /\ ret.data = BeValue(DataBytes(t[5].rx))
            /\ status = t[5].rx[1]

\* stop succeeded with a pin attached, and the XTARGET write answered with
\* another status than the exchange before it
C15_Witness ==
    /\ op.name = "stop"
    /\ ret.ok
    /\ en # "none"
    /\ Transfers(wire)[5].rx[1] # Transfers(wire)[4].rx[1]
    /\ status = Transfers(wire)[5].rx[1]

(***************************************************************************)
(* C16: enable drives EN low (high when inverted), disable high (low when  *)
(* inverted); with no pin attached both return Ok and command nothing.     *)
(* move_to enables before its XTARGET write and stop disables before its   *)
(* first write; when that pin command fails the call returns PinError      *)
(* having issued no bus exchange.                                          *)
(***************************************************************************)
EnabledLevel == IF en_inverted THEN "high" ELSE "low"
DisabledLevel == IF en_inverted THEN "low" ELSE "high"

\* the pin command a call opens with
OpensWith(level) ==
    /\ Len(wire) >= 1
    /\ wire[1].ev = "en_" \o level
    /\ ~wire[1].ok => (wire = <<wire[1]>> /\ ret = Err("PinError"))
    /\ wire[1].ok => (Len(wire) > 1 /\ wire[2].ev = "cs_low")

C16_EnablePin ==
    /\ op.name \in {"enable", "disable"} =>
           IF en = "none" THEN wire = <<>> /\ ret = OkVal(0)
           ELSE /\ Kinds(wire) =
                       <<"en_" \o (IF op.name = "enable" THEN EnabledLevel ELSE DisabledLevel)>>
                /\ en = (IF op.name = "enable" THEN EnabledLevel ELSE DisabledLevel)
                /\ ret = IF wire[1].ok THEN OkVal(0) ELSE Err("PinError")
    /\ (op.name = "move_to" /\ en # "none") => OpensWith(EnabledLevel)
    /\ (op.name = "stop" /\ en # "none") => OpensWith(DisabledLevel)
    /\ (op.name \in {"move_to", "stop"} /\ en = "none") =>
           (Len(wire) >= 1 /\ wire[1].ev = "cs_low")

\* move_to returned PinError from an inverted enable pin, nothing sent
C16_Witness ==
    /\ op.name = "move_to"
    /\ en_inverted
    /\ en = "high"
    /\ ret = Err("PinError")
    /\ Transfers(wire) = <<>>

(***************************************************************************)
(* C17: in a successful stop the 32-bit word written to XTARGET is the     *)
(* 32-bit word just read from XACTUAL.  The code writes the bytes of the   *)
(* f32 that get_position returns, the position in full steps as an         *)
(* IEEE-754 bit pattern.                                                   *)
(***************************************************************************)
C17_StopHoldsPosition ==
    (op.name = "stop" /\ ret.ok) =>
        DataBytes(Transfers(wire)[5].tx) = DataBytes(Transfers(wire)[4].rx)

(***************************************************************************)
(* C18: when set_velocity or set_velocity_raw returns an error, v_max, the *)
(* value get_velocity_max returns, is what it was before the call.  The    *)
(* code assigns self.v_max before the VMAX write.                          *)
(***************************************************************************)
C18_VMaxKeptOnError ==
    [][(op'.name \in {"set_velocity", "set_velocity_raw"} /\ ~ret'.ok) => v_max' = v_max]_vars

(***************************************************************************)
(* C19: the cached status changes only when one of read_drv_status,        *)
(* read_gstat, read_gconf, read_ramp_status, read_enc_status, set_home,    *)
(* stop, set_velocity, set_velocity_raw, set_acceleration, move_to         *)
(* completes successfully (a motion-state predicate is its status read),   *)
(* it is then the status byte of that operation's last exchange, and an    *)
(* operation that returns an error leaves it as it was.                    *)
(***************************************************************************)
StatusUpdating ==
    {"read_drv_status", "read_gstat", "read_gconf", "read_ramp_status",
     "read_enc_status", "set_home", "stop", "set_velocity", "set_velocity_raw",
     "set_acceleration", "move_to"}

\* the status read a motion-state predicate is
ReadBehind ==
    [is_moving |-> "read_drv_status", position_is_reached |-> "read_ramp_status",
     velocity_is_reached |-> "read_ramp_status", is_at_limit_r |-> "read_ramp_status",
     is_at_limit_l |-> "read_ramp_status"]

OperationOf(name) == IF name \in DOMAIN ReadBehind THEN ReadBehind[name] ELSE name

C19_StatusFrame ==
    /\ [][status' # status => (OperationOf(op'.name) \in StatusUpdating /\ ret'.ok)]_vars
    /\ [][(OperationOf(op'.name) \in StatusUpdating /\ ret'.ok) =>
             status' = Transfers(wire')[Len(Transfers(wire'))].rx[1]]_vars
    /\ [][(op'.name # "idle" /\ ~ret'.ok) => status' = status]_vars

\* set_home failed at its second write after a first write that answered
\* with another status than the cached one, which stayed
C19_Witness ==
    /\ op.name = "set_home"
    /\ ~ret.ok
    /\ Len(Transfers(wire)) = 2
    /\ Transfers(wire)[1].rx[1] # status
=============================================================================
